---------------------------- MODULE Spec2Model ----------------------------
(***************************************************************************)
(* Model of the RQ1 evaluation pipeline of RECON_artifacts:                *)
(*   src/evaluation/RQ1/llm_interface.py  (backend client, response        *)
(*        parser, retry loop),                                             *)
(*   src/evaluation/RQ1/evaluator.py      (orchestrator, checkpoints),     *)
(*   src/evaluation/RQ1/utils.py          (load/save, similarity scorer),  *)
(*   src/evaluation/RQ1/run_evaluation.py (main, exit codes).              *)
(*                                                                         *)
(* Texts are sequences of tokens.  A token is one character (" ", "j",    *)
(* "tick" for the backquote) or the name of a complete JSON document       *)
(* ("D_ok", ...), which                                                    *)
(* stands for the characters of that document; Docs gives the value each   *)
(* document decodes to.  Message constants are one token each.             *)
(***************************************************************************)
EXTENDS Integers, Sequences, FiniteSets, TLC

(***************************************************************************)
(* Text helpers: str.strip, str.startswith, slicing, str.lower, `in`.      *)
(***************************************************************************)
WS == {" "}

RECURSIVE LStrip(_)
LStrip(s) == IF s # <<>> /\ Head(s) \in WS THEN LStrip(Tail(s)) ELSE s

RECURSIVE RStrip(_)
RStrip(s) ==
    IF s # <<>> /\ s[Len(s)] \in WS THEN RStrip(SubSeq(s, 1, Len(s) - 1)) ELSE s

Strip(s) == RStrip(LStrip(s))

StartsWith(s, p) == Len(s) >= Len(p) /\ SubSeq(s, 1, Len(p)) = p

\* Python s[a:-b] for a >= 0, b > 0
Slice(s, a, b) == IF Len(s) - b >= a + 1 THEN SubSeq(s, a + 1, Len(s) - b) ELSE <<>>

\* mutant: the text is not cut
PrefixAll(s, n) == s

\* Python s[:n]
Prefix(s, n) == IF Len(s) <= n THEN s ELSE SubSeq(s, 1, n)

\* Python `p in s` for two strings
IsSubstring(p, s) ==
    \E i \in 0..(Len(s) - Len(p)) : SubSeq(s, i + 1, i + Len(p)) = p

FENCE == <<"tick", "tick", "tick">>
FENCE_JSON == <<"tick", "tick", "tick", "j", "s", "o", "n">>
EXCERPT_LEN == 200

(***************************************************************************)
(* JSON values, tagged by their Python type after json.loads.              *)
(***************************************************************************)
JNull == [t |-> "null"]
JNum == [t |-> "num"]
JStr(s) == [t |-> "str", s |-> s]
JArr(e) == [t |-> "arr", e |-> e]
JObj(f) == [t |-> "obj", f |-> f]

\* the characters of the four field names, for `in` on a str
KeyChars ==
    [purpose_behavior |->
        <<"p","u","r","p","o","s","e","_","b","e","h","a","v","i","o","r">>,
     return_values |-> <<"r","e","t","u","r","n","_","v","a","l","u","e","s">>,
     type |-> <<"t","y","p","e">>,
     description |-> <<"d","e","s","c","r","i","p","t","i","o","n">>]

T_int == <<"i", "n", "t">>
T_Int == <<"I", "n", "t">>
T_int_sp == <<" ", "i", "n", "t", " ">>
T_Integer == <<"I", "n", "t", "e", "g", "e", "r">>
T_purpose == <<"parses an int">>
T_desc == <<"the parsed value">>
T_type_description ==
    <<"t","y","p","e"," ","d","e","s","c","r","i","p","t","i","o","n">>

RV(ty) == JObj([type |-> ty, description |-> JStr(T_desc)])
Answer(rv) == JObj([purpose_behavior |-> JStr(T_purpose), return_values |-> rv])

\* the documents a backend may answer with
Docs ==
    [D_ok |-> Answer(RV(JStr(T_int))),
     D_Int |-> Answer(RV(JStr(T_Int))),
     D_int_sp |-> Answer(RV(JStr(T_int_sp))),
     D_Integer |-> Answer(RV(JStr(T_Integer))),
     D_typenum |-> Answer(RV(JNum)),
     D_nopb |-> JObj([return_values |-> RV(JStr(T_int))]),
     D_norv |-> JObj([purpose_behavior |-> JStr(T_purpose)]),
     D_notype |-> Answer(JObj([description |-> JStr(T_desc)])),
     D_nodesc |-> Answer(JObj([type |-> JStr(T_int)])),
     D_descnull |-> Answer(JObj([type |-> JStr(T_int), description |-> JNull])),
     D_pbnum |-> JObj([purpose_behavior |-> JNum, return_values |-> RV(JStr(T_Int))]),
     D_rvnum |-> Answer(JNum),
     D_rvnull |-> Answer(JNull),
     D_rvstr |-> Answer(JStr(T_type_description)),
     D_rvarr |-> Answer(JArr(<<JStr(KeyChars.type), JStr(KeyChars.description)>>)),
     D_num |-> JNum,
     D_null |-> JNull,
     D_str |-> JStr(T_int),
     D_arr |-> JArr(<<>>),
     D_arrkeys |->
        JArr(<<JStr(KeyChars.purpose_behavior), JStr(KeyChars.return_values)>>)]

DocNames == DOMAIN Docs

\* json.loads: one document, surrounding whitespace allowed
json_loads(text) ==
    LET body == Strip(text)
    IN  IF Len(body) = 1 /\ body[1] \in DocNames
        THEN [ok |-> TRUE, v |-> Docs[body[1]]]
        ELSE [ok |-> FALSE, v |-> JNull]

\* `k in v` raises TypeError unless v is a dict, a list or a str
InRaises(v) == v.t \notin {"obj", "arr", "str"}

PyIn(k, v) ==
    CASE v.t = "obj" -> k \in DOMAIN v.f
      [] v.t = "arr" -> \E i \in 1..Len(v.e) : v.e[i] = JStr(KeyChars[k])
      [] v.t = "str" -> IsSubstring(KeyChars[k], v.s)
      [] OTHER -> FALSE

\* v[k] with a str key raises TypeError unless v is a dict
GetRaises(v) == v.t # "obj"

(***************************************************************************)
(* parse_llm_response.  The result is what the call returns, or the        *)
(* exception that leaves it.                                               *)
(***************************************************************************)
Return(v) == [raised |-> FALSE, exc |-> "", value |-> v]
Raise(e) == [raised |-> TRUE, exc |-> e, value |-> JNull]

ParseErrorRecord(text) ==
    JObj([purpose_behavior |-> JStr(<<"PARSE_ERROR: ">> \o Prefix(text, EXCERPT_LEN)),
          return_values |->
              JObj([type |-> JStr(<<"PARSE_ERROR">>),
                    description |-> JStr(<<"Failed to parse JSON response">>)]),
          parse_error |-> JStr(<<"JSONDecodeError">>)])

ValidationErrorRecord(msg) ==
    JObj([purpose_behavior |-> JStr(<<"VALIDATION_ERROR: ">> \o msg),
          return_values |->
              JObj([type |-> JStr(<<"VALIDATION_ERROR">>),
                    description |-> JStr(<<"Response missing required fields">>)]),
          validation_error |-> JStr(msg)])

StripFence(raw) ==
    LET s == Strip(raw)
    IN  IF StartsWith(s, FENCE_JSON) THEN Strip(Slice(s, 7, 3))
        ELSE IF StartsWith(s, FENCE) THEN Strip(Slice(s, 3, 3))
        ELSE s

\* the four field checks; a TypeError is neither a JSONDecodeError nor a
\* ValueError, so the two handlers let it pass
ValidateFields(parsed) ==
    IF InRaises(parsed) THEN Raise("TypeError")
    ELSE IF ~PyIn("purpose_behavior", parsed)
    THEN Return(ValidationErrorRecord(<<"Missing 'purpose_behavior' field">>))
    ELSE IF ~PyIn("return_values", parsed)
    THEN Return(ValidationErrorRecord(<<"Missing 'return_values' field">>))
    ELSE IF GetRaises(parsed) THEN Raise("TypeError")
    ELSE IF InRaises(parsed.f["return_values"]) THEN Raise("TypeError")
    ELSE IF ~PyIn("type", parsed.f["return_values"])
    THEN Return(ValidationErrorRecord(<<"Missing 'type' in return_values">>))
    ELSE IF ~PyIn("description", parsed.f["return_values"])
    THEN Return(ValidationErrorRecord(<<"Missing 'description' in return_values">>))
    ELSE Return(parsed)

parse_llm_response(raw) ==
    LET text == StripFence(raw)
        decoded == json_loads(text)
    IN  IF ~decoded.ok THEN Return(ParseErrorRecord(text))
        ELSE ValidateFields(decoded.v)

\* how a returned record is tagged
IsParseError(r) == ~r.raised /\ r.value.t = "obj" /\ "parse_error" \in DOMAIN r.value.f
IsValidationError(r) ==
    ~r.raised /\ r.value.t = "obj" /\ "validation_error" \in DOMAIN r.value.f
IsSuccessRecord(r) == ~r.raised /\ ~IsParseError(r) /\ ~IsValidationError(r)


(***************************************************************************)
(* Configuration (config.py).  Of the five backends the model keeps the    *)
(* hosted one and the first local one, in configuration order.  Delays are *)
(* in milliseconds.  config.py sets PROGRESS_SAVE_INTERVAL to 10; the      *)
(* model scales the interval down and every formula is stated in terms of  *)
(* the name.                                                               *)
(***************************************************************************)
LLM_NAMES == <<"gpt4o", "deepseek">>
LLM_CONFIGS ==
    [gpt4o |-> [type |-> "openai", rate_limit_delay |-> 1000],
     deepseek |-> [type |-> "ollama", rate_limit_delay |-> 500]]
MAX_RETRIES == 3
PROGRESS_SAVE_INTERVAL == 2

\* bounds of the model
MaxMethods == 5

(***************************************************************************)
(* Dicts are functions over their key sets.                                *)
(***************************************************************************)
EmptyDict == [k \in {} |-> 0]
\* mutant: the dict is replaced by one with the new key only
PutOnly(d, k, v) == [x \in {k} |-> v]

Put(d, k, v) == [x \in (DOMAIN d) \cup {k} |-> IF x = k THEN v ELSE d[x]]

(***************************************************************************)
(* Backend client: query_openai, query_ollama.  A reply is what the        *)
(* network gives back: no connection, or a status, a body (response.text)  *)
(* and the generated text the body carries, if it carries one              *)
(* (choices[0].message.content for the hosted API, "response" for the      *)
(* local one).                                                             *)
(***************************************************************************)
Generated(text) == [present |-> TRUE, text |-> text]
NoGenerated == [present |-> FALSE, text |-> <<>>]

Error(msg, status, body) == [msg |-> msg, status |-> status, body |-> body]
ClientText(text) == [raised |-> FALSE, exc |-> Error("", 0, <<>>), text |-> text]
ClientRaise(e) == [raised |-> TRUE, exc |-> e, text |-> <<>>]

\* response.json()[...] of a body without the field: KeyError, IndexError
\* or a decode error, which leave the client as they are
ReadGenerated(reply) ==
    IF reply.generated.present THEN ClientText(reply.generated.text)
    ELSE ClientRaise(Error("KeyError", 0, <<>>))

query_openai(reply) ==
    IF ~reply.conn THEN ClientRaise(Error("ConnectionError", 0, <<>>))
    ELSE IF reply.status = 200 THEN ReadGenerated(reply)
    ELSE IF reply.status = 429 THEN ClientRaise(Error("Rate limit exceeded", 0, <<>>))
    ELSE ClientRaise(Error("OpenAI API error", reply.status, reply.body))

\* mutant: the handler catches every exception of the try body
query_ollama_catch_all(reply) ==
    IF ~reply.conn \/ reply.status # 200
    THEN ClientRaise(Error("Cannot connect to Ollama. Make sure Ollama is running locally.",
                           0, <<>>))
    ELSE ReadGenerated(reply)

query_ollama(reply) ==
    IF ~reply.conn
    THEN ClientRaise(Error("Cannot connect to Ollama. Make sure Ollama is running locally.",
                           0, <<>>))
    ELSE IF reply.status = 200 THEN ReadGenerated(reply)
    ELSE ClientRaise(Error("Ollama API error", reply.status, reply.body))

(***************************************************************************)
(* Similarity scorer (utils.py).  The embedding model is opaque: the       *)
(* cosine of two texts is the term <<"cos", t1, t2>>.                       *)
(***************************************************************************)
calculate_similarity(t1, t2) == <<"cos", t1, t2>>
Zero == <<"0.0">>

LowerChar ==
    [c \in {"I", "N", "T", "E", "G", "R"} |->
        CASE c = "I" -> "i" [] c = "N" -> "n" [] c = "T" -> "t"
          [] c = "E" -> "e" [] c = "G" -> "g" [] c = "R" -> "r"]

\* mutant: upper-case letters are kept
LowerNone(s) == s

Lower(s) == [i \in 1..Len(s) |-> IF s[i] \in DOMAIN LowerChar THEN LowerChar[s[i]] ELSE s[i]]

IsText(v) == v.t = "str"

\* what makes the body of calculate_method_similarity raise: indexing a
\* value that is no dict, .lower() on a value that is no str, str + non-str
ScorerRaises(r) ==
    \/ r.t # "obj"
    \/ "purpose_behavior" \notin DOMAIN r.f
    \/ "return_values" \notin DOMAIN r.f
    \/ r.f["return_values"].t # "obj"
    \/ "type" \notin DOMAIN r.f["return_values"].f
    \/ "description" \notin DOMAIN r.f["return_values"].f
    \/ ~IsText(r.f["return_values"].f["type"])
    \/ ~IsText(r.f["purpose_behavior"])
    \/ ~IsText(r.f["return_values"].f["description"])

Combined(r) ==
    r.f["purpose_behavior"].s \o <<" Returns ">> \o r.f["return_values"].f["type"].s
        \o <<": ">> \o r.f["return_values"].f["description"].s

calculate_method_similarity(ground_truth, llm_response) ==
    IF ScorerRaises(ground_truth) \/ ScorerRaises(llm_response)
    THEN [purpose_similarity |-> Zero,
          return_type_match |-> FALSE,
          return_desc_similarity |-> Zero,
          overall_similarity |-> Zero,
          success |-> FALSE,
          error |-> <<"str(e)">>]
    ELSE [purpose_similarity |->
              calculate_similarity(ground_truth.f["purpose_behavior"].s,
                                   llm_response.f["purpose_behavior"].s),
          return_type_match |->
              Strip(Lower(ground_truth.f["return_values"].f["type"].s))
                  = Strip(Lower(llm_response.f["return_values"].f["type"].s)),
          return_desc_similarity |->
              calculate_similarity(ground_truth.f["return_values"].f["description"].s,
                                   llm_response.f["return_values"].f["description"].s),
          overall_similarity |->
              calculate_similarity(Combined(ground_truth), Combined(llm_response)),
          success |-> TRUE]

(***************************************************************************)
(* Files (utils.py load_ground_truth, save_json).  A JSON document of a    *)
(* ResultSet is its set of key/value members.                              *)
(***************************************************************************)
Absent == [state |-> "absent", doc |-> {}]
Garbage == [state |-> "garbage", doc |-> {}]
JsonFile(doc) == [state |-> "json", doc |-> doc]

json_dump(data) == {<<k, data[k]>> : k \in DOMAIN data}
json_load(doc) ==
    [k \in {m[1] : m \in doc} |-> (CHOOSE m \in doc : m[1] = k)[2]]

\* mutant: only the entries without a failed response are written
save_json_clean(data) ==
    JsonFile(json_dump(
        [s \in {k \in DOMAIN data :
                    \A l \in DOMAIN data[k].llm_responses :
                        data[k].llm_responses[l].success} |-> data[s]]))

\* save_json, when it succeeds: the file holds the dumped data
save_json(data) == JsonFile(json_dump(data))

\* load_ground_truth: the data, or FileNotFoundError / JSONDecodeError
load_ground_truth(file) ==
    IF file.state = "json" THEN [raised |-> FALSE, data |-> json_load(file.doc)]
    ELSE [raised |-> TRUE, data |-> EmptyDict]

(***************************************************************************)
(* The catalogue (utils.py get_method_list).                               *)
(***************************************************************************)
SIGS == <<"m1", "m2", "m3", "m4", "m5", "m6", "m7", "m8">>
GroundTruth(sig) ==
    JObj([signature |-> JStr(<<sig>>),
          purpose_behavior |-> JStr(T_purpose),
          return_values |-> RV(JStr(T_int))])
\* a ground-truth record with another return type
GroundTruthTyped(sig, ty) ==
    JObj([signature |-> JStr(<<sig>>),
          purpose_behavior |-> JStr(T_purpose),
          return_values |-> RV(JStr(ty))])
Method(sig) == [signature |-> sig, category |-> "input", data |-> GroundTruth(sig)]
Catalogue(n) == [i \in 1..n |-> Method(SIGS[i])]

\* the categories of a ground-truth file, in the order of the file
CATEGORIES == <<"input", "network">>

\* count_total_methods: .values() of a value that is no dict raises
CountRaises(ground_truth) == ground_truth["framework_methods"].t # "obj"

RECURSIVE SumLen(_, _)
SumLen(fm, cats) ==
    IF cats = <<>> THEN 0
    ELSE (IF Head(cats) \in DOMAIN fm THEN Len(fm[Head(cats)].e) ELSE 0)
            + SumLen(fm, Tail(cats))

count_total_methods(ground_truth) ==
    SumLen(ground_truth["framework_methods"].f, CATEGORIES)

RECURSIVE MethodsOf(_, _)
MethodsOf(fm, cats) ==
    IF cats = <<>> THEN <<>>
    ELSE (IF Head(cats) \in DOMAIN fm
          THEN [i \in 1..Len(fm[Head(cats)].e) |->
                    [signature |-> fm[Head(cats)].e[i].f["signature"].s[1],
                     category |-> Head(cats),
                     data |-> fm[Head(cats)].e[i]]]
          ELSE <<>>)
            \o MethodsOf(fm, Tail(cats))

get_method_list(ground_truth) ==
    MethodsOf(ground_truth["framework_methods"].f, CATEGORIES)

\* the ground-truth file of a catalogue of one category
GroundTruthFile(cat) ==
    JsonFile({<<"framework_methods",
                JObj([input |-> JArr([i \in 1..Len(cat) |-> cat[i].data])])>>})

(***************************************************************************)
(* State.                                                                  *)
(*   pc           position of the process: "start" (run_full_evaluation    *)
(*                entered), "loop" (head of the method loop), "llm" (head  *)
(*                of the backend loop), "attempt" (head of the retry loop  *)
(*                of evaluate_method), "returned" (evaluate_method has     *)
(*                returned llm_result), "save" (end of the method loop     *)
(*                body), "final" (after the loop), "done", "exit";         *)
(*                "parse" / "parsed" for a lone parse_llm_response call    *)
(*   exit_code    of the process, -1 while it runs                         *)
(*   files        resume file, progress_backup.json, full_results.json,    *)
(*                summary_statistics.json                                  *)
(*   results      self.results                                             *)
(*   idx, llm_idx, attempt   the three loop indices (llm_idx from 1)       *)
(* History variables, which no code reads:                                 *)
(*   sleeps, calls, errors   of the evaluate_method call in progress       *)
(*   client_out   what the last client call returned or raised             *)
(*   requests     client calls of this run, <<position, backend, attempt>> *)
(*   ckpts        positions at which progress_backup.json was written      *)
(*   final_writes number of full_results.json writes of this run           *)
(*   processed    positions whose backend loop has finished in this run    *)
(*   writes       the result files this run has written, in order          *)
(* For a lone call of parse_llm_response and of calculate_method_similarity *)
(* (pc "parse", "parsed", "scored"):                                       *)
(*   raw_response, parsed, score   the text, what the parser gave, and the *)
(*                score of it against the ground truth of catalogue[1]     *)
(* For a lone call of a backend client (pc "query", "queried"):            *)
(*   net_reply    what the network answers to the client of backend        *)
(*                llm_idx; client_out is what the client makes of it       *)
(*   run, prev_results   1 or 2; the ResultSet the first run ended with    *)
(*   interrupted  a KeyboardInterrupt ended the run                        *)
(* Setup (run_evaluation.py main), with pc "main" (main entered) and        *)
(* "validated" (validate_setup found no error):                            *)
(*   args         the command line: ground_truth names the file given by   *)
(*                --ground-truth ("default_gt" is GROUND_TRUTH_FILE),      *)
(*                dry_run                                                  *)
(*   env          OPENAI_API_KEY, and whether the sentence-transformer     *)
(*                model can be loaded                                      *)
(***************************************************************************)
VARIABLES pc, exit_code, catalogue, resume_from, files, results, idx, llm_idx,
          attempt, llm_result, sleeps, calls, errors, requests, ckpts,
          final_writes, processed, run, prev_results, interrupted,
          raw_response, parsed, args, env, writes, score, net_reply, client_out

vars == <<pc, exit_code, catalogue, resume_from, files, results, idx, llm_idx,
          attempt, llm_result, sleeps, calls, errors, requests, ckpts,
          final_writes, processed, run, prev_results, interrupted,
          raw_response, parsed, args, env, writes, score, net_reply, client_out>>

loop_vars == <<idx, llm_idx, attempt>>
call_hist == <<sleeps, calls, errors, client_out>>
run_hist == <<requests, ckpts, final_writes, processed, writes>>
setup_vars == <<args, env>>
lone_vars == <<score, net_reply>>
fixed_vars ==
    <<catalogue, resume_from, run, prev_results, raw_response, parsed, args, env,
      score, net_reply>>

NoResult == [none |-> TRUE]
Running ==
    {"main", "validated", "start", "loop", "llm", "attempt", "returned", "save", "final"}

(***************************************************************************)
(* evaluate_method: results and the steps of one pass of the retry loop.   *)
(***************************************************************************)
SuccessResult(llm, sig, raw, p, att) ==
    [llm |-> llm, method_signature |-> sig, raw_response |-> raw,
     parsed_response |-> p, success |-> TRUE, attempt |-> att + 1]

\* mutant: the error of the first failed attempt is reported
FailureResultFirst(llm, sig, caught, att) ==
    [llm |-> llm, method_signature |-> sig, error |-> caught[1],
     success |-> FALSE, attempt |-> att + 1]

\* caught: the exceptions the handler has caught in this call; `e` is the
\* one it holds now, the last
FailureResult(llm, sig, caught, att) ==
    [llm |-> llm, method_signature |-> sig, error |-> caught[Len(caught)],
     success |-> FALSE, attempt |-> att + 1]

\* mutant: the first retry is not preceded by a sleep
BackoffLate(att) ==
    IF att > 1 THEN <<[kind |-> "backoff", ms |-> 1000 * (2 ^ att)]>> ELSE <<>>

\* mutant: every retry waits the same two seconds
BackoffFixed(att) == IF att > 0 THEN <<[kind |-> "backoff", ms |-> 2000]>> ELSE <<>>

\* time.sleep(2 ** attempt) before a retry, in milliseconds
Backoff(att) == IF att > 0 THEN <<[kind |-> "backoff", ms |-> 1000 * (2 ^ att)]>> ELSE <<>>

query(llm, reply) ==
    IF LLM_CONFIGS[llm].type = "openai" THEN query_openai(reply) ELSE query_ollama(reply)

\* the try body after the sleep: the client call, then the parse; any
\* Exception of either lands in the handler
TryBody(llm, reply) ==
    LET q == query(llm, reply)
        p == parse_llm_response(q.text)
    IN  IF q.raised THEN [failed |-> TRUE, exc |-> q.exc, raw |-> <<>>, parsed |-> JNull]
        ELSE IF p.raised
        THEN [failed |-> TRUE, exc |-> Error(p.exc, 0, <<>>), raw |-> <<>>, parsed |-> JNull]
        ELSE [failed |-> FALSE, exc |-> Error("", 0, <<>>), raw |-> q.text,
              parsed |-> p.value]

\* `if attempt < MAX_RETRIES - 1: continue`
RetryAgain(att) == att < MAX_RETRIES - 1

(***************************************************************************)
(* Orchestrator helpers.                                                   *)
(***************************************************************************)
\* mutant: an entry with a failed response is evaluated again
AlreadyEvaluatedOk(sig, res) ==
    /\ sig \in DOMAIN res
    /\ \A l \in DOMAIN res[sig].llm_responses : res[sig].llm_responses[l].success

\* mutant: once a resume file is loaded, every entry is skipped
AlreadyEvaluatedAny(sig, res) == res # EmptyDict

\* mutant: the test is inverted
AlreadyEvaluatedInverted(sig, res) == sig \notin DOMAIN res

\* `if signature in self.results: continue`
AlreadyEvaluated(sig, res) == sig \in DOMAIN res

NewEntry(m) ==
    [category |-> m.category, ground_truth |-> m.data,
     llm_responses |-> EmptyDict, similarities |-> EmptyDict]

\* mutant: the response of a failed request is not stored
StoreResultDropFailure(entry, llm, r) ==
    IF r.success
    THEN [entry EXCEPT
            !.llm_responses = Put(@, llm, r),
            !.similarities =
                Put(@, llm, calculate_method_similarity(entry.ground_truth,
                                                        r.parsed_response))]
    ELSE entry

\* mutant: the score of a failed scoring is not stored
StoreResultDropFailedScore(entry, llm, r) ==
    [entry EXCEPT
        !.llm_responses = Put(@, llm, r),
        !.similarities =
            IF r.success
                /\ calculate_method_similarity(entry.ground_truth,
                                               r.parsed_response).success
            THEN Put(@, llm, calculate_method_similarity(entry.ground_truth,
                                                         r.parsed_response))
            ELSE @]

\* mutant: a failed request gets the score of an empty record
StoreResultScoreAll(entry, llm, r) ==
    [entry EXCEPT
        !.llm_responses = Put(@, llm, r),
        !.similarities =
            Put(@, llm, calculate_method_similarity(
                            entry.ground_truth,
                            IF r.success THEN r.parsed_response ELSE JNull))]

\* lines 93-102: store the response, and the score of a successful one
StoreResult(entry, llm, r) ==
    [entry EXCEPT
        !.llm_responses = Put(@, llm, r),
        !.similarities =
            IF r.success
            THEN Put(@, llm, calculate_method_similarity(entry.ground_truth,
                                                         r.parsed_response))
            ELSE @]

\* mutant: a checkpoint is due after every entry
SaveDueAlways(i) == TRUE

\* mutant: the 0-based index is tested
SaveDueIdx(i) == i % PROGRESS_SAVE_INTERVAL = 0

\* `if (idx + 1) % PROGRESS_SAVE_INTERVAL == 0`
SaveDue(i) == (i + 1) % PROGRESS_SAVE_INTERVAL = 0

generate_summary_stats(res) ==
    {<<"evaluation_info", [total_methods |-> Cardinality(DOMAIN res)]>>}

\* what a failed save_json may leave behind: makedirs or open failed (the
\* old file), or the dump stopped part-way (no JSON)
AfterFailedSave(old) == {old, Garbage}

(***************************************************************************)
(* run_full_evaluation (evaluator.py 47-129), one action per step.         *)
(***************************************************************************)
\* sys.exit(1) in main: the process ends and its memory with it
ExitOne ==
    /\ pc' = "exit"
    /\ exit_code' = 1
    /\ results' = EmptyDict
    /\ idx' = 0
    /\ llm_idx' = 0
    /\ attempt' = 0
    /\ llm_result' = NoResult
    /\ sleeps' = <<>>
    /\ calls' = 0
    /\ errors' = <<>>
    /\ client_out' = ClientText(<<>>)

\* mutant: a failed load of the resume file ends the run
StartLoadFatal ==
    /\ pc = "start"
    /\ IF resume_from # "none" /\ load_ground_truth(files[resume_from]).raised
       THEN /\ ExitOne
            /\ UNCHANGED <<files, interrupted>>
       ELSE /\ results' =
                  IF resume_from = "none" THEN results
                  ELSE load_ground_truth(files[resume_from]).data
            /\ idx' = 0
            /\ pc' = "loop"
            /\ UNCHANGED <<exit_code, files, llm_idx, attempt, llm_result, interrupted>>
            /\ UNCHANGED call_hist
    /\ UNCHANGED <<run_hist, fixed_vars>>

\* lines 49-63: load the resume file; a failed load is logged and ignored
Start ==
    /\ pc = "start"
    /\ results' =
          IF resume_from = "none" THEN results
          ELSE IF load_ground_truth(files[resume_from]).raised THEN results
          ELSE load_ground_truth(files[resume_from]).data
    /\ idx' = 0
    /\ pc' = "loop"
    /\ UNCHANGED <<exit_code, files, llm_idx, attempt, llm_result, interrupted>>
    /\ UNCHANGED <<call_hist, run_hist, fixed_vars>>

\* lines 65-73: the signature is a key of self.results: continue
LoopSkip ==
    /\ pc = "loop"
    /\ idx < Len(catalogue)
    /\ AlreadyEvaluated(catalogue[idx + 1].signature, results)
    /\ idx' = idx + 1
    /\ UNCHANGED <<pc, exit_code, files, results, llm_idx, attempt, llm_result,
                   interrupted>>
    /\ UNCHANGED <<call_hist, run_hist, fixed_vars>>

\* lines 65-87: create the entry and enter the backend loop
LoopBegin ==
    /\ pc = "loop"
    /\ idx < Len(catalogue)
    /\ ~AlreadyEvaluated(catalogue[idx + 1].signature, results)
    /\ results' = Put(results, catalogue[idx + 1].signature, NewEntry(catalogue[idx + 1]))
    /\ llm_idx' = 1
    /\ pc' = "llm"
    /\ UNCHANGED <<exit_code, files, idx, attempt, llm_result, interrupted>>
    /\ UNCHANGED <<call_hist, run_hist, fixed_vars>>

\* line 65: the catalogue is exhausted
LoopExit ==
    /\ pc = "loop"
    /\ idx = Len(catalogue)
    /\ pc' = "final"
    /\ UNCHANGED <<exit_code, files, results, loop_vars, llm_result, interrupted>>
    /\ UNCHANGED <<call_hist, run_hist, fixed_vars>>

\* lines 87-92 and 133-143: call evaluate_method for the next backend
LlmCall ==
    /\ pc = "llm"
    /\ llm_idx <= Len(LLM_NAMES)
    /\ attempt' = 0
    /\ llm_result' = NoResult
    /\ sleeps' = <<>>
    /\ calls' = 0
    /\ errors' = <<>>
    /\ client_out' = ClientText(<<>>)
    /\ pc' = "attempt"
    /\ UNCHANGED <<exit_code, files, results, idx, llm_idx, interrupted>>
    /\ UNCHANGED <<run_hist, fixed_vars>>

\* mutant: the backend loop is left after the first backend
LlmDoneEarly ==
    /\ pc = "llm"
    /\ llm_idx > 1
    /\ processed' = processed \cup {idx + 1}
    /\ pc' = "save"
    /\ UNCHANGED <<exit_code, files, results, loop_vars, llm_result, interrupted>>
    /\ UNCHANGED <<call_hist, requests, ckpts, final_writes, writes, fixed_vars>>

\* line 87: every backend has been tried for this entry
LlmDone ==
    /\ pc = "llm"
    /\ llm_idx > Len(LLM_NAMES)
    /\ processed' = processed \cup {idx + 1}
    /\ pc' = "save"
    /\ UNCHANGED <<exit_code, files, results, loop_vars, llm_result, interrupted>>
    /\ UNCHANGED <<call_hist, requests, ckpts, final_writes, writes, fixed_vars>>

\* llm_interface.py 143-181: one pass of the retry loop.  Both return
\* statements are inside the loop and the last pass always returns, so the
\* time.sleep(rate_limit_delay) of line 184, after the loop, is never run.
Attempt(replies) ==
    /\ pc = "attempt"
    /\ \E reply \in replies :
          LET llm == LLM_NAMES[llm_idx]
              sig == catalogue[idx + 1].signature
              out == TryBody(llm, reply)
          IN  /\ sleeps' = sleeps \o Backoff(attempt)
              /\ calls' = calls + 1
              /\ client_out' = query(llm, reply)
              /\ requests' = Append(requests, <<idx + 1, llm_idx, attempt>>)
              /\ errors' = IF out.failed THEN Append(errors, out.exc) ELSE errors
              /\ IF ~out.failed
                 THEN /\ llm_result' = SuccessResult(llm, sig, out.raw, out.parsed, attempt)
                      /\ pc' = "returned"
                      /\ UNCHANGED attempt
                 ELSE IF RetryAgain(attempt)
                 THEN /\ attempt' = attempt + 1
                      /\ UNCHANGED <<pc, llm_result>>
                 ELSE /\ llm_result' = FailureResult(llm, sig, Append(errors, out.exc),
                                                     attempt)
                      /\ pc' = "returned"
                      /\ UNCHANGED attempt
    /\ UNCHANGED <<exit_code, files, results, idx, llm_idx, interrupted>>
    /\ UNCHANGED <<ckpts, final_writes, processed, writes, fixed_vars>>

\* mutant: after a failed request the same backend is asked again
StoreRetryFailed ==
    /\ pc = "returned"
    /\ results' =
          [results EXCEPT ![catalogue[idx + 1].signature] =
              StoreResult(@, LLM_NAMES[llm_idx], llm_result)]
    /\ llm_idx' = IF llm_result.success THEN llm_idx + 1 ELSE llm_idx
    /\ sleeps' = <<>>
    /\ calls' = 0
    /\ errors' = <<>>
    /\ client_out' = ClientText(<<>>)
    /\ llm_result' = NoResult
    /\ pc' = "llm"
    /\ UNCHANGED <<exit_code, files, idx, attempt, interrupted>>
    /\ UNCHANGED <<run_hist, fixed_vars>>

\* evaluator.py 93-108: store the response and, if successful, its score
Store ==
    /\ pc = "returned"
    /\ results' =
          [results EXCEPT ![catalogue[idx + 1].signature] =
              StoreResult(@, LLM_NAMES[llm_idx], llm_result)]
    /\ llm_idx' = llm_idx + 1
    /\ sleeps' = <<>>
    /\ calls' = 0
    /\ errors' = <<>>
    /\ client_out' = ClientText(<<>>)
    /\ llm_result' = NoResult
    /\ pc' = "llm"
    /\ UNCHANGED <<exit_code, files, idx, attempt, interrupted>>
    /\ UNCHANGED <<run_hist, fixed_vars>>

\* lines 118-120: no checkpoint at this position
NoSave ==
    /\ pc = "save"
    /\ ~SaveDue(idx)
    /\ idx' = idx + 1
    /\ pc' = "loop"
    /\ UNCHANGED <<exit_code, files, results, llm_idx, attempt, llm_result, interrupted>>
    /\ UNCHANGED <<call_hist, run_hist, fixed_vars>>

\* lines 118-120, 131-137: _save_progress writes progress_backup.json
SaveProgressOk ==
    /\ pc = "save"
    /\ SaveDue(idx)
    /\ files' = [files EXCEPT !.progress = save_json(results)]
    /\ ckpts' = Append(ckpts, idx + 1)
    /\ writes' = Append(writes, "progress")
    /\ idx' = idx + 1
    /\ pc' = "loop"
    /\ UNCHANGED <<exit_code, results, llm_idx, attempt, llm_result, interrupted>>
    /\ UNCHANGED <<call_hist, requests, final_writes, processed, fixed_vars>>

\* save_json raises: the error leaves run_full_evaluation, main exits 1
\* mutant: a failed checkpoint write is logged and the loop goes on
SaveProgressFailIgnored ==
    /\ pc = "save"
    /\ SaveDue(idx)
    /\ \E f \in AfterFailedSave(files.progress) :
          files' = [files EXCEPT !.progress = f]
    /\ idx' = idx + 1
    /\ pc' = "loop"
    /\ UNCHANGED <<exit_code, results, llm_idx, attempt, llm_result>>
    /\ UNCHANGED <<call_hist, interrupted, run_hist, fixed_vars>>

SaveProgressFail ==
    /\ pc = "save"
    /\ SaveDue(idx)
    /\ \E f \in AfterFailedSave(files.progress) :
          files' = [files EXCEPT !.progress = f]
    /\ ExitOne
    /\ UNCHANGED <<interrupted, run_hist, fixed_vars>>

\* lines 122-129, 139-148: full_results.json, summary_statistics.json, the
\* report (its errors are swallowed) and the printed summary
FinalOk ==
    /\ pc = "final"
    /\ files' = [files EXCEPT !.final = save_json(results),
                              !.summary = JsonFile(generate_summary_stats(results))]
    /\ final_writes' = final_writes + 1
    /\ writes' = writes \o <<"final", "summary">>
    /\ pc' = "done"
    /\ exit_code' = 0
    /\ UNCHANGED <<results, loop_vars, llm_result, interrupted>>
    /\ UNCHANGED <<call_hist, requests, ckpts, processed, fixed_vars>>

\* the write of full_results.json fails
FinalFail ==
    /\ pc = "final"
    /\ \E f \in AfterFailedSave(files.final) : files' = [files EXCEPT !.final = f]
    /\ ExitOne
    /\ UNCHANGED <<interrupted, run_hist, fixed_vars>>

\* full_results.json is written, the write of summary_statistics.json fails
SummaryFail ==
    /\ pc = "final"
    /\ \E f \in AfterFailedSave(files.summary) :
          files' = [files EXCEPT !.final = save_json(results), !.summary = f]
    /\ final_writes' = final_writes + 1
    /\ writes' = Append(writes, "final")
    /\ ExitOne
    /\ UNCHANGED <<interrupted, requests, ckpts, processed, fixed_vars>>

\* run_evaluation.py 106-108: KeyboardInterrupt is no Exception, so no
\* handler below main catches it; main logs and exits 1
Interrupt ==
    /\ pc \in Running
    /\ interrupted' = TRUE
    /\ ExitOne
    /\ UNCHANGED <<files, run_hist, fixed_vars>>

\* a second process: a new evaluator (evaluator.py 24-34), run with
\* --resume-from full_results.json and the same catalogue
Rerun ==
    /\ pc = "done"
    /\ run = 1
    /\ run' = 2
    /\ prev_results' = results
    /\ results' = EmptyDict
    /\ resume_from' = "final"
    /\ exit_code' = -1
    /\ idx' = 0
    /\ llm_idx' = 0
    /\ attempt' = 0
    /\ requests' = <<>>
    /\ ckpts' = <<>>
    /\ final_writes' = 0
    /\ processed' = {}
    /\ writes' = <<>>
    /\ pc' = "start"
    /\ UNCHANGED <<files, llm_result, interrupted, catalogue, raw_response, parsed>>
    /\ UNCHANGED <<call_hist, setup_vars, lone_vars>>

(***************************************************************************)
(* main (run_evaluation.py 54-112) up to the call of run_full_evaluation.  *)
(***************************************************************************)
\* validate_setup: the list of errors, here the set of their kinds.  The
\* file looked for is GROUND_TRUTH_FILE, whatever --ground-truth names
validate_setup ==
    (IF files.default_gt.state = "absent" THEN {"Ground truth file not found"} ELSE {})
    \cup (IF env.OPENAI_API_KEY \in {"", "your-openai-api-key-here"}
          THEN {"OpenAI API key not configured"} ELSE {})
    \cup (IF ~env.transformer THEN {"Cannot load sentence transformer model"} ELSE {})

\* FrameworkMethodEvaluator.__init__ raises: load_ground_truth, or
\* _validate_ground_truth (ValueError, or the AttributeError of .values())
InitRaises(file) ==
    \/ load_ground_truth(file).raised
    \/ "framework_methods" \notin DOMAIN load_ground_truth(file).data
    \/ CountRaises(load_ground_truth(file).data)
    \/ count_total_methods(load_ground_truth(file).data) = 0

\* lines 72-83: validation errors are logged, sys.exit(1)
Validate ==
    /\ pc = "main"
    /\ IF validate_setup # {}
       THEN ExitOne
       ELSE /\ pc' = "validated"
            /\ UNCHANGED <<exit_code, results, loop_vars, llm_result, call_hist>>
    /\ UNCHANGED <<files, interrupted, run_hist, fixed_vars>>

\* lines 85-87: --dry-run returns from main, exit code 0
DryRun ==
    /\ pc = "validated"
    /\ args.dry_run
    /\ pc' = "done"
    /\ exit_code' = 0
    /\ UNCHANGED <<files, results, loop_vars, llm_result, interrupted>>
    /\ UNCHANGED <<call_hist, run_hist, fixed_vars>>

\* lines 89-98: construct the evaluator; an exception of __init__ reaches
\* main's handler, sys.exit(1); otherwise run_full_evaluation is entered
Construct ==
    /\ pc = "validated"
    /\ ~args.dry_run
    /\ IF InitRaises(files[args.ground_truth])
       THEN ExitOne /\ UNCHANGED catalogue
       ELSE /\ catalogue' = get_method_list(load_ground_truth(files[args.ground_truth]).data)
            /\ results' = EmptyDict
            /\ pc' = "start"
            /\ UNCHANGED <<exit_code, loop_vars, llm_result, call_hist>>
    /\ UNCHANGED <<files, interrupted, run_hist, resume_from, run, prev_results,
                   raw_response, parsed, setup_vars, lone_vars>>

\* a lone call of parse_llm_response
ParseStep ==
    /\ pc = "parse"
    /\ parsed' = parse_llm_response(raw_response)
    /\ pc' = "parsed"
    /\ UNCHANGED <<exit_code, catalogue, resume_from, files, results, loop_vars,
                   llm_result, run, prev_results, interrupted, raw_response>>
    /\ UNCHANGED <<call_hist, run_hist, setup_vars, lone_vars>>

\* evaluator.py 96-102, alone: the parsed response of a successful request
\* is scored against the ground truth of the method
ScoreStep ==
    /\ pc = "parsed"
    /\ ~parsed.raised
    /\ score' = calculate_method_similarity(catalogue[1].data, parsed.value)
    /\ pc' = "scored"
    /\ UNCHANGED <<exit_code, catalogue, resume_from, files, results, loop_vars,
                   llm_result, run, prev_results, interrupted, raw_response, parsed>>
    /\ UNCHANGED <<call_hist, run_hist, setup_vars, net_reply>>

\* one call of the client of backend llm_idx (llm_interface.py 150-153)
QueryStep ==
    /\ pc = "query"
    /\ client_out' = query(LLM_NAMES[llm_idx], net_reply)
    /\ pc' = "queried"
    /\ UNCHANGED <<exit_code, catalogue, resume_from, files, results, loop_vars,
                   llm_result, run, prev_results, interrupted, raw_response, parsed>>
    /\ UNCHANGED <<sleeps, calls, errors, run_hist, setup_vars, score, net_reply>>

(***************************************************************************)
(* Environment: what the network answers, and the files a run starts from. *)
(***************************************************************************)
OkReply(text) ==
    [conn |-> TRUE, status |-> 200, body |-> <<"envelope">>, generated |-> Generated(text)]
ErrReply(status) ==
    [conn |-> TRUE, status |-> status, body |-> <<"busy">>, generated |-> NoGenerated]
NoConn == [conn |-> FALSE, status |-> 0, body |-> <<>>, generated |-> NoGenerated]

\* valid; undecodable; decodes to a number; valid with a number as type
ResponseTexts == {<<"D_ok">>, <<"x">>, <<"D_num">>, <<"D_typenum">>}
Replies == {OkReply(t) : t \in ResponseTexts} \cup {ErrReply(429), NoConn}
\* the replies of the long-catalogue specification: valid or undecodable
SchedReplies == {OkReply(<<"D_ok">>), OkReply(<<"x">>)}

\* an entry a previous run left in a resume file
PriorEntry(sig, kind) ==
    LET first ==
            IF kind = "ok"
            THEN SuccessResult("gpt4o", sig, <<"D_ok">>, Docs["D_ok"], 0)
            ELSE FailureResult("gpt4o", sig, <<Error("Rate limit exceeded", 0, <<>>)>>,
                               MAX_RETRIES - 1)
        second == SuccessResult("deepseek", sig, <<"D_ok">>, Docs["D_ok"], 0)
    IN  StoreResult(StoreResult(NewEntry(Method(sig)), "gpt4o", first), "deepseek", second)

PriorKinds == {"ok", "failed"}
Priors(sigs) ==
    {[s \in DOMAIN k |-> PriorEntry(s, k[s])] :
        k \in UNION {[S -> PriorKinds] : S \in SUBSET sigs}}
FailedPriors(sigs) == {[s \in S |-> PriorEntry(s, "failed")] : S \in SUBSET sigs}

SigsOf(cat) == {cat[i].signature : i \in 1..Len(cat)}

InitRun(cat, rf, file) ==
    /\ pc = "start"
    /\ exit_code = -1
    /\ catalogue = cat
    /\ resume_from = rf
    /\ files = [resume |-> file, progress |-> Absent, final |-> Absent,
                summary |-> Absent, default_gt |-> GroundTruthFile(cat),
                other_gt |-> Absent]
    /\ args = [ground_truth |-> "default_gt", dry_run |-> FALSE]
    /\ env = [OPENAI_API_KEY |-> "sk-key", transformer |-> TRUE]
    /\ results = EmptyDict
    /\ idx = 0
    /\ llm_idx = 0
    /\ attempt = 0
    /\ llm_result = NoResult
    /\ sleeps = <<>>
    /\ calls = 0
    /\ errors = <<>>
    /\ requests = <<>>
    /\ ckpts = <<>>
    /\ final_writes = 0
    /\ processed = {}
    /\ writes = <<>>
    /\ run = 1
    /\ prev_results = EmptyDict
    /\ interrupted = FALSE
    /\ raw_response = <<>>
    /\ parsed = Return(JNull)
    /\ score = NoResult
    /\ net_reply = NoConn
    /\ client_out = ClientText(<<>>)

\* Spec: every reply, a catalogue of two entries (distinct, or the same
\* signature twice), fresh or resumed from a non-empty ResultSet
SmallCatalogues ==
    {<<Method("m1"), Method("m2")>>, <<Method("m1"), Method("m1")>>}

Init ==
    \E cat \in SmallCatalogues :
       \/ InitRun(cat, "none", Absent)
       \/ \E p \in Priors(SigsOf(cat)) \ {EmptyDict} :
             InitRun(cat, "resume", JsonFile(json_dump(p)))

Faults == SaveProgressFail \/ FinalFail \/ SummaryFail \/ Interrupt

Steps(replies) ==
    \/ Start \/ LoopSkip \/ LoopBegin \/ LoopExit \/ LlmCall \/ LlmDone
    \/ Attempt(replies) \/ Store \/ NoSave \/ SaveProgressOk \/ FinalOk

Next == Steps(Replies) \/ Faults

Spec == Init /\ [][Next]_vars

\* SpecSched: a catalogue of MaxMethods distinct entries, fresh or resumed
\* from any subset of it; a finished run may be followed by a run resumed
\* from its full_results.json
InitSched ==
    \/ InitRun(Catalogue(MaxMethods), "none", Absent)
    \/ \E p \in FailedPriors(SigsOf(Catalogue(MaxMethods))) :
          InitRun(Catalogue(MaxMethods), "resume", JsonFile(json_dump(p)))

NextSched == Steps(SchedReplies) \/ Faults \/ Rerun

SpecSched == InitSched /\ [][NextSched]_vars

\* SpecResume: --resume-from names a file that is missing or is not JSON
UnloadableFiles == {Absent, Garbage}
ResumeReplies == {OkReply(<<"D_ok">>), ErrReply(429)}
InitResume ==
    \E cat \in SmallCatalogues, f \in UnloadableFiles : InitRun(cat, "resume", f)

NextResume == Steps(ResumeReplies) \/ Faults

SpecResume == InitResume /\ [][NextResume]_vars

\* SpecParse: one call of parse_llm_response on a text built of padding,
\* an opening fence with or without a tag, a body, and a closing fence
Pads == {<<>>, <<" ">>}
Opens == {<<>>, FENCE, FENCE_JSON, FENCE \o <<"p", "y">>}
\* undecodable texts around the length of the excerpt
LongText(n) == [i \in 1..n |-> "x"]
LongLengths == {EXCERPT_LEN - 1, EXCERPT_LEN, EXCERPT_LEN + 1, EXCERPT_LEN + 100}
Bodies ==
    {<<d>> : d \in DocNames} \cup {<<>>, <<"x">>} \cup {LongText(n) : n \in LongLengths}
Closes == {<<>>, FENCE}
Texts ==
    {a \o o \o b \o d \o c \o e :
        a \in Pads, o \in Opens, b \in Pads, d \in Bodies, c \in Closes, e \in Pads}

InitParse ==
    /\ pc = "parse"
    /\ exit_code = -1
    /\ catalogue = <<>>
    /\ resume_from = "none"
    /\ files = [resume |-> Absent, progress |-> Absent, final |-> Absent,
                summary |-> Absent, default_gt |-> Absent, other_gt |-> Absent]
    /\ args = [ground_truth |-> "default_gt", dry_run |-> FALSE]
    /\ env = [OPENAI_API_KEY |-> "sk-key", transformer |-> TRUE]
    /\ results = EmptyDict
    /\ idx = 0
    /\ llm_idx = 0
    /\ attempt = 0
    /\ llm_result = NoResult
    /\ sleeps = <<>>
    /\ calls = 0
    /\ errors = <<>>
    /\ requests = <<>>
    /\ ckpts = <<>>
    /\ final_writes = 0
    /\ processed = {}
    /\ writes = <<>>
    /\ run = 1
    /\ prev_results = EmptyDict
    /\ interrupted = FALSE
    /\ raw_response \in Texts
    /\ parsed = Return(JNull)
    /\ score = NoResult
    /\ net_reply = NoConn
    /\ client_out = ClientText(<<>>)

NextParse == ParseStep

SpecParse == InitParse /\ [][NextParse]_vars

\* SpecScore: one response text is parsed and, unless the parser raised,
\* scored against a ground truth whose type is one of four spellings
TypeSpellings == {T_int, T_Int, T_int_sp, T_Integer}
ScoreTexts == {<<d>> : d \in DocNames} \cup {<<"x">>}

InitScore ==
    /\ pc = "parse"
    /\ exit_code = -1
    /\ \E ty \in TypeSpellings :
          catalogue = <<[signature |-> "m1", category |-> "input",
                         data |-> GroundTruthTyped("m1", ty)]>>
    /\ resume_from = "none"
    /\ files = [resume |-> Absent, progress |-> Absent, final |-> Absent,
                summary |-> Absent, default_gt |-> Absent, other_gt |-> Absent]
    /\ args = [ground_truth |-> "default_gt", dry_run |-> FALSE]
    /\ env = [OPENAI_API_KEY |-> "sk-key", transformer |-> TRUE]
    /\ results = EmptyDict
    /\ idx = 0
    /\ llm_idx = 0
    /\ attempt = 0
    /\ llm_result = NoResult
    /\ sleeps = <<>>
    /\ calls = 0
    /\ errors = <<>>
    /\ requests = <<>>
    /\ ckpts = <<>>
    /\ final_writes = 0
    /\ processed = {}
    /\ writes = <<>>
    /\ run = 1
    /\ prev_results = EmptyDict
    /\ interrupted = FALSE
    /\ raw_response \in ScoreTexts
    /\ parsed = Return(JNull)
    /\ score = NoResult
    /\ net_reply = NoConn
    /\ client_out = ClientText(<<>>)

NextScore == ParseStep \/ ScoreStep

SpecScore == InitScore /\ [][NextScore]_vars

\* SpecClient: one call of the client of either backend, over every
\* status of StatusCodes with and without a generated text, and no
\* connection
StatusCodes == {200, 201, 204, 301, 400, 401, 404, 429, 500, 503}
ClientReplies ==
    {[conn |-> TRUE, status |-> st, body |-> b, generated |-> g] :
        st \in StatusCodes, b \in {<<"envelope">>, <<"busy">>},
        g \in {Generated(<<"D_ok">>), Generated(<<"x">>), NoGenerated}}
    \cup {NoConn}

InitClient ==
    /\ pc = "query"
    /\ exit_code = -1
    /\ catalogue = <<Method("m1")>>
    /\ resume_from = "none"
    /\ files = [resume |-> Absent, progress |-> Absent, final |-> Absent,
                summary |-> Absent, default_gt |-> Absent, other_gt |-> Absent]
    /\ args = [ground_truth |-> "default_gt", dry_run |-> FALSE]
    /\ env = [OPENAI_API_KEY |-> "sk-key", transformer |-> TRUE]
    /\ results = EmptyDict
    /\ idx = 0
    /\ llm_idx \in 1..Len(LLM_NAMES)
    /\ attempt = 0
    /\ llm_result = NoResult
    /\ sleeps = <<>>
    /\ calls = 0
    /\ errors = <<>>
    /\ requests = <<>>
    /\ ckpts = <<>>
    /\ final_writes = 0
    /\ processed = {}
    /\ writes = <<>>
    /\ run = 1
    /\ prev_results = EmptyDict
    /\ interrupted = FALSE
    /\ raw_response = <<>>
    /\ parsed = Return(JNull)
    /\ score = NoResult
    /\ net_reply \in ClientReplies
    /\ client_out = ClientText(<<>>)

NextClient == QueryStep

SpecClient == InitClient /\ [][NextClient]_vars

\* SpecSetup: main from its first line, over ground-truth files that are
\* absent, undecodable, without catalogue, without methods or good, with
\* and without --ground-truth, --dry-run and --resume-from, a credential
\* and a model
GroundTruthDocs ==
    {{<<"other", JNum>>},
     {<<"framework_methods", JObj([c \in {} |-> JNull])>>},
     {<<"framework_methods", JObj([input |-> JArr(<<>>), network |-> JArr(<<>>)])>>},
     {<<"framework_methods", JArr(<<>>)>>},
     {<<"framework_methods",
        JObj([input |-> JArr(<<GroundTruth("m1")>>),
              network |-> JArr(<<GroundTruth("m2")>>)])>>}}
GroundTruthFiles == {Absent, Garbage} \cup {JsonFile(d) : d \in GroundTruthDocs}
ApiKeys == {"", "your-openai-api-key-here", "sk-key"}
SetupReplies == {OkReply(<<"D_ok">>), ErrReply(429)}

InitSetup ==
    /\ pc = "main"
    /\ exit_code = -1
    /\ catalogue = <<>>
    /\ \E d \in GroundTruthFiles,
          o \in {Absent, GroundTruthFile(<<Method("m1"), Method("m2")>>)},
          r \in {<<"none", Absent>>,
                 <<"resume", JsonFile(json_dump([s \in {"m1"} |-> PriorEntry(s, "failed")]))>>} :
          /\ resume_from = r[1]
          /\ files = [resume |-> r[2], progress |-> Absent, final |-> Absent,
                      summary |-> Absent, default_gt |-> d, other_gt |-> o]
    /\ args \in [ground_truth : {"default_gt", "other_gt"}, dry_run : BOOLEAN]
    /\ env \in [OPENAI_API_KEY : ApiKeys, transformer : BOOLEAN]
    /\ results = EmptyDict
    /\ idx = 0
    /\ llm_idx = 0
    /\ attempt = 0
    /\ llm_result = NoResult
    /\ sleeps = <<>>
    /\ calls = 0
    /\ errors = <<>>
    /\ requests = <<>>
    /\ ckpts = <<>>
    /\ final_writes = 0
    /\ processed = {}
    /\ writes = <<>>
    /\ run = 1
    /\ prev_results = EmptyDict
    /\ interrupted = FALSE
    /\ raw_response = <<>>
    /\ parsed = Return(JNull)
    /\ score = NoResult
    /\ net_reply = NoConn
    /\ client_out = ClientText(<<>>)

NextSetup == Validate \/ DryRun \/ Construct \/ Steps(SetupReplies) \/ Faults

SpecSetup == InitSetup /\ [][NextSetup]_vars

\* SpecLive: Spec without interrupts and failed writes, and a process that
\* keeps running while it has a step to take
SpecLive == Init /\ [][Steps(Replies)]_vars /\ WF_vars(Steps(Replies))

(***************************************************************************)
(* Properties.                                                             *)
(***************************************************************************)
Range(q) == {q[i] : i \in 1..Len(q)}
Last(q) == q[Len(q)]

RECURSIVE SumMs(_)
SumMs(q) == IF q = <<>> THEN 0 ELSE Head(q).ms + SumMs(Tail(q))

RECURSIVE PowSum(_)
\* 2^1 + 2^2 + ... + 2^n
PowSum(n) == IF n <= 0 THEN 0 ELSE (2 ^ n) + PowSum(n - 1)

CurrentSig == catalogue[idx + 1].signature
CurrentLlm == LLM_NAMES[llm_idx]

\* the ResultSet the run was seeded with
LoadedResults ==
    IF resume_from = "none" \/ files[resume_from].state # "json" THEN EmptyDict
    ELSE json_load(files[resume_from].doc)

\* signatures held by the progress_backup.json this run has written
CheckpointKeys ==
    IF ckpts # <<>> /\ files.progress.state = "json"
    THEN DOMAIN json_load(files.progress.doc) ELSE {}

\* signatures held by any result file this run has written
DurableKeys ==
    CheckpointKeys \cup
        (IF final_writes > 0 /\ files.final.state = "json"
         THEN DOMAIN json_load(files.final.doc) ELSE {})

\* C1: parse_llm_response never raises: every text yields exactly one of a
\* success record, a ParseError-tagged record, a ValidationError-tagged record
C1_ParseTotal ==
    pc = "parsed" =>
        /\ ~parsed.raised
        /\ Cardinality({k \in {"success", "parse", "validation"} :
                \/ k = "success" /\ IsSuccessRecord(parsed)
                \/ k = "parse" /\ IsParseError(parsed)
                \/ k = "validation" /\ IsValidationError(parsed)}) = 1

\* C2: one evaluate_method call makes at most MAX_RETRIES client calls, and
\* when it returns a failure its backoff sleeps sum to at least
\* 2^1 + ... + 2^(MAX_RETRIES - 1) seconds
C2_RetryBound ==
    /\ calls <= MAX_RETRIES
    /\ (pc = "returned" /\ ~llm_result.success) =>
           SumMs(sleeps) >= 1000 * PowSum(MAX_RETRIES - 1)

C2_Witness ==
    /\ pc = "returned"
    /\ ~llm_result.success
    /\ calls = MAX_RETRIES
    /\ Len(sleeps) = MAX_RETRIES - 1

\* C3: when evaluate_method returns, success or failure, the last thing it
\* did was to sleep for the backend's rate_limit_delay
C3_RateLimitDelay ==
    pc = "returned" =>
        /\ sleeps # <<>>
        /\ Last(sleeps) = [kind |-> "rate_limit",
                           ms |-> LLM_CONFIGS[CurrentLlm].rate_limit_delay]

\* C4: an entry whose signature is already a key of the ResultSet when the
\* loop reaches it gets no backend request and stays as it is, whatever its
\* recorded responses
C4_Kept ==
    pc \in Running \ {"start"} =>
        /\ \A sig \in DOMAIN LoadedResults :
              sig \in DOMAIN results /\ results[sig] = LoadedResults[sig]
        /\ \A r \in Range(requests) :
              /\ catalogue[r[1]].signature \notin DOMAIN LoadedResults
              /\ \A q \in 1..(r[1] - 1) :
                    catalogue[q].signature # catalogue[r[1]].signature

C4_SkipStep ==
    (/\ pc = "loop"
     /\ idx < Len(catalogue)
     /\ catalogue[idx + 1].signature \in DOMAIN results
     /\ pc' # "exit")
        => /\ results' = results
           /\ requests' = requests
           /\ idx' = idx + 1
           /\ pc' = "loop"

C4_ResumeSkip == []C4_Kept /\ [][C4_SkipStep]_vars

C4_Witness ==
    /\ pc = "loop"
    /\ idx = 2
    /\ requests # <<>>
    /\ "m2" \in DOMAIN LoadedResults
    /\ ~LoadedResults["m2"].llm_responses["gpt4o"].success
    /\ results["m2"] = LoadedResults["m2"]

\* C5: a run resumed from the full_results.json of a finished run with the
\* same catalogue makes no backend request and ends with the same ResultSet
C5_ResumeIdempotent ==
    run = 2 =>
        /\ requests = <<>>
        /\ pc \in {"loop", "final", "done"} => results = prev_results
        /\ pc = "done" => files.final = JsonFile(json_dump(prev_results))

C5_Witness ==
    /\ run = 2
    /\ pc = "done"
    /\ DOMAIN prev_results = SigsOf(catalogue)
    /\ \E sig \in DOMAIN prev_results : ~prev_results[sig].llm_responses["gpt4o"].success
    /\ \E sig \in DOMAIN prev_results :
          /\ prev_results[sig].llm_responses["gpt4o"].success
          /\ prev_results[sig].llm_responses["gpt4o"].raw_response = <<"x">>

\* C6: at most PROGRESS_SAVE_INTERVAL entries processed in this run are
\* missing from the latest checkpoint
C6_LossBound ==
    pc \in Running =>
        Cardinality({p \in processed : catalogue[p].signature \notin CheckpointKeys})
            <= PROGRESS_SAVE_INTERVAL

\* C7: a fresh run over distinct signatures has written, once idx entries
\* are behind it, exactly the checkpoints at N, 2N, ..., each holding the
\* entries up to its position complete for every backend, and it ends with
\* exactly one final write of the whole ResultSet
FreshRun == run = 1 /\ resume_from = "none"

CompleteUpTo(doc, n) ==
    /\ DOMAIN json_load(doc) = {SIGS[i] : i \in 1..n}
    /\ \A sig \in DOMAIN json_load(doc) :
          DOMAIN json_load(doc)[sig].llm_responses = Range(LLM_NAMES)

C7_Schedule ==
    (FreshRun /\ pc \in Running \cup {"done"}) =>
        /\ ckpts = [j \in 1..(idx \div PROGRESS_SAVE_INTERVAL) |->
                        j * PROGRESS_SAVE_INTERVAL]
        /\ ckpts # <<>> =>
              /\ files.progress.state = "json"
              /\ CompleteUpTo(files.progress.doc, Last(ckpts))
        /\ final_writes = IF pc = "done" THEN 1 ELSE 0
        /\ pc = "done" =>
              /\ idx = Len(catalogue)
              /\ files.final = JsonFile(json_dump(results))
              /\ CompleteUpTo(files.final.doc, Len(catalogue))

C7_Witness ==
    /\ FreshRun
    /\ pc = "done"
    /\ Len(ckpts) = Len(catalogue) \div PROGRESS_SAVE_INTERVAL
    /\ Len(ckpts) >= 2
    /\ Len(catalogue) % PROGRESS_SAVE_INTERVAL # 0

\* C8: after a KeyboardInterrupt every entry processed before it is in a
\* file the run has written
C8_InterruptSaves ==
    interrupted =>
        \A p \in processed : catalogue[p].signature \in DurableKeys

\* C9: when every attempt of a request fails, evaluate_method returns
\* success = false with attempt = MAX_RETRIES and the error of the last
\* attempt; the orchestrator stores it under the backend's name, stores no
\* score for that backend and goes on to the next backend
C9_Returned ==
    (pc = "returned" /\ Len(errors) = MAX_RETRIES) =>
        /\ ~llm_result.success
        /\ llm_result.attempt = MAX_RETRIES
        /\ llm_result.error = Last(errors)
        /\ llm_result.llm = CurrentLlm

C9_StoreStep ==
    (pc = "returned" /\ ~llm_result.success /\ pc' # "exit") =>
        /\ pc' = "llm"
        /\ llm_idx' = llm_idx + 1
        /\ idx' = idx
        /\ results'[CurrentSig].llm_responses[CurrentLlm] = llm_result
        /\ CurrentLlm \notin DOMAIN results'[CurrentSig].similarities
        /\ \A sig \in DOMAIN results \ {CurrentSig} : results'[sig] = results[sig]

C9_ExhaustedRetries == []C9_Returned /\ [][C9_StoreStep]_vars

\* the last backend of the first method failed with another error than its
\* first attempt, and the second method is being tried
C9_Witness ==
    /\ pc = "attempt"
    /\ idx = 1
    /\ "m1" \in DOMAIN results
    /\ "deepseek" \in DOMAIN results["m1"].llm_responses
    /\ ~results["m1"].llm_responses["deepseek"].success
    /\ results["m1"].llm_responses["deepseek"].attempt = MAX_RETRIES
    /\ results["m1"].llm_responses["deepseek"].error.msg = "TypeError"
    /\ "deepseek" \notin DOMAIN results["m1"].similarities

\* C10: whatever the backends answer, and with writes that succeed, the run
\* reaches the final write with every catalogue signature in the ResultSet
C10_BatchCompletes ==
    <>(/\ pc = "done"
       /\ final_writes = 1
       /\ SigsOf(catalogue) \subseteq DOMAIN results
       /\ files.final = JsonFile(json_dump(results)))

C10_Witness ==
    /\ pc = "done"
    /\ final_writes = 1
    /\ LoadedResults = EmptyDict
    /\ DOMAIN results = {"m1", "m2"}
    /\ ~results["m1"].llm_responses["gpt4o"].success
    /\ results["m1"].llm_responses["deepseek"].success
    /\ IsParseError(Return(results["m1"].llm_responses["deepseek"].parsed_response))
    /\ ~results["m2"].llm_responses["deepseek"].success
    /\ results["m2"].llm_responses["gpt4o"].success
    /\ ~results["m2"].similarities["gpt4o"].success

\* C11: at the head of the method loop, at the checkpoint test, at the final
\* write and in every file the run has written, each entry created in this
\* run holds a response of every configured backend
FullyAttempted(res) ==
    \A sig \in DOMAIN res \ DOMAIN LoadedResults :
        /\ DOMAIN res[sig].llm_responses = Range(LLM_NAMES)
        /\ \A l \in Range(LLM_NAMES) : res[sig].llm_responses[l].success \in BOOLEAN

C11_FullyAttempted ==
    /\ pc \in {"loop", "save", "final", "done"} => FullyAttempted(results)
    /\ (ckpts # <<>> /\ files.progress.state = "json") =>
           FullyAttempted(json_load(files.progress.doc))
    /\ (final_writes > 0 /\ files.final.state = "json") =>
           FullyAttempted(json_load(files.final.doc))

\* a fresh run has written a checkpoint and the final results, with an
\* entry one of whose requests failed
C11_Witness ==
    /\ pc = "done"
    /\ LoadedResults = EmptyDict
    /\ ckpts = <<2>>
    /\ files.progress.state = "json"
    /\ DOMAIN results = {"m1", "m2"}
    /\ ~results["m1"].llm_responses["gpt4o"].success
    /\ results["m2"].llm_responses["deepseek"].success

\* C12: when the ground-truth input is missing, undecodable, without the
\* method catalogue or without methods, or the hosted-backend credential is
\* missing, the process ends with a non-zero exit code, and no backend
\* request and no result or checkpoint write is ever made
GroundTruthInput == files[args.ground_truth]

SetupError ==
    \/ GroundTruthInput.state = "absent"
    \/ GroundTruthInput.state = "garbage"
    \/ /\ GroundTruthInput.state = "json"
       /\ \/ "framework_methods" \notin DOMAIN json_load(GroundTruthInput.doc)
          \/ json_load(GroundTruthInput.doc)["framework_methods"].t # "obj"
          \/ count_total_methods(json_load(GroundTruthInput.doc)) = 0
    \/ env.OPENAI_API_KEY = ""

NoWorkDone ==
    /\ pc \in {"main", "validated", "exit", "done"}
    /\ requests = <<>>
    /\ ckpts = <<>>
    /\ final_writes = 0
    /\ files.progress = Absent
    /\ files.final = Absent
    /\ files.summary = Absent

C12_SetupFatal ==
    SetupError =>
        /\ NoWorkDone
        /\ pc \in {"exit", "done"} => exit_code > 0

\* the part of C12 that the code keeps: no work is done after a setup error
C12_NoWork == SetupError => NoWorkDone

\* C13: the final ResultSet and the summary are written exactly once, after
\* the method loop and after every checkpoint write, and the final
\* ResultSet holds every catalogue signature and every carried-over entry
C13_AtDone ==
    pc = "done" =>
        /\ idx = Len(catalogue)
        /\ final_writes = 1
        /\ writes = [j \in 1..Len(ckpts) |-> "progress"] \o <<"final", "summary">>
        /\ files.final.state = "json"
        /\ DOMAIN json_load(files.final.doc) =
               SigsOf(catalogue) \cup DOMAIN LoadedResults
        /\ json_load(files.final.doc) = results
        /\ files.summary = JsonFile(generate_summary_stats(results))

C13_WriteStep ==
    (run' = run /\ pc' # "exit") =>
        /\ (writes' # writes /\ Last(writes') # "progress") =>
               /\ pc = "final"
               /\ idx = Len(catalogue)
               /\ "final" \notin Range(writes)
               /\ "summary" \notin Range(writes)
        /\ "final" \in Range(writes) => writes' = writes

C13_FinalWrite == []C13_AtDone /\ [][C13_WriteStep]_vars

\* a resumed run over the long catalogue has written a checkpoint and is done
C13_Witness ==
    /\ pc = "done"
    /\ run = 1
    /\ ckpts # <<>>
    /\ Last(writes) = "summary"
    /\ DOMAIN LoadedResults # {}
    /\ DOMAIN LoadedResults # SigsOf(catalogue)
    /\ DOMAIN results = SigsOf(catalogue)

\* C14 (as stated): the return_type_match flag of a score is true exactly
\* when the types of ground truth and response are equal after lower-casing
\* and trimming
GtType == catalogue[1].data.f["return_values"].f["type"].s

HasTextType(r) ==
    /\ r.t = "obj"
    /\ "return_values" \in DOMAIN r.f
    /\ r.f["return_values"].t = "obj"
    /\ "type" \in DOMAIN r.f["return_values"].f
    /\ r.f["return_values"].f["type"].t = "str"

TypesEqual(r) ==
    /\ HasTextType(r)
    /\ Strip(Lower(GtType)) = Strip(Lower(r.f["return_values"].f["type"].s))

C14_TypeMatchAlways ==
    pc = "scored" => (score.return_type_match <=> TypesEqual(parsed.value))

\* C14 (amended): in a score with success = true the flag is true exactly
\* when the two types are equal after lower-casing and trimming, so that for
\* ground truth "int" the responses "int", "Int" and " int " give true and
\* "Integer" gives false; a score with success = false has the flag false
C14_TypeMatch ==
    pc = "scored" =>
        /\ score.success => (score.return_type_match <=> TypesEqual(parsed.value))
        /\ ~score.success => ~score.return_type_match
        /\ (GtType = T_int /\ raw_response \in {<<"D_ok">>, <<"D_Int">>, <<"D_int_sp">>})
              => score.success /\ score.return_type_match
        /\ (GtType = T_int /\ raw_response = <<"D_Integer">>)
              => score.success /\ ~score.return_type_match

C14_Witness ==
    /\ pc = "scored"
    /\ GtType = T_int
    /\ raw_response = <<"D_Int">>
    /\ score.success
    /\ score.return_type_match

\* C15: the hosted client turns status 429 into the RateLimited failure,
\* every other non-2xx status into a BackendError with the status and the
\* body, and every 2xx status into the text of the first generated message
Hosted == LLM_CONFIGS[LLM_NAMES[llm_idx]].type = "openai"
Is2xx(st) == st \in 200..299
RateLimited == Error("Rate limit exceeded", 0, <<>>)

C15_HostedStatus ==
    (pc = "queried" /\ Hosted /\ net_reply.conn) =>
        /\ net_reply.status = 429 =>
               client_out.raised /\ client_out.exc = RateLimited
        /\ (~Is2xx(net_reply.status) /\ net_reply.status # 429) =>
               /\ client_out.raised
               /\ client_out.exc =
                      Error("OpenAI API error", net_reply.status, net_reply.body)
        /\ (Is2xx(net_reply.status) /\ net_reply.generated.present) =>
               /\ ~client_out.raised
               /\ client_out.text = net_reply.generated.text

\* C16: the local client turns a connection failure into the
\* BackendUnreachable failure, a non-success status into a BackendError with
\* the status and the body, which differs from it, and status 200 into the
\* generated text
Unreachable ==
    Error("Cannot connect to Ollama. Make sure Ollama is running locally.", 0, <<>>)

C17_AttemptStep ==
    (pc = "attempt" /\ calls' = calls + 1 /\ ~client_out'.raised) =>
        /\ pc' = "returned"
        /\ llm_result'.success
        /\ llm_result'.attempt = attempt + 1
        /\ llm_result'.raw_response = client_out'.text
        /\ Len(errors) = attempt

\* no client call follows the one that returned text
C17_NoCallAfter ==
    (pc \in {"attempt", "returned"} /\ calls > 0 /\ ~client_out.raised) =>
        /\ pc = "returned"
        /\ llm_result.success
        /\ llm_result.attempt = calls

C17_SuccessReturns == []C17_NoCallAfter /\ [][C17_AttemptStep]_vars

\* C18: in one evaluate_method call nothing is slept before attempt 0, and
\* right before each attempt i > 0 there is exactly one backoff sleep, of
\* 2^i seconds, whatever the failure of the attempt before
BackoffSleep(i) == [kind |-> "backoff", ms |-> 1000 * (2 ^ i)]

C18_Slept ==
    pc \in {"attempt", "returned"} =>
        sleeps = [i \in 1..(calls - 1) |-> BackoffSleep(i)]

C18_AttemptStep ==
    (pc = "attempt" /\ calls' = calls + 1) =>
        /\ calls = attempt
        /\ attempt = 0 => sleeps = <<>> /\ sleeps' = <<>>
        /\ attempt > 0 => sleeps' = Append(sleeps, BackoffSleep(attempt))

C18_BackoffSchedule == []C18_Slept /\ [][C18_AttemptStep]_vars

\* three attempts that failed in three ways, with sleeps of 2 and 4 seconds
C18_Witness ==
    /\ pc = "returned"
    /\ calls = 3
    /\ sleeps = <<BackoffSleep(1), BackoffSleep(2)>>
    /\ Cardinality(Range(errors)) = 3

\* C19: a valid record wrapped in a fenced code block, with no tag, with the
\* tag json or with another tag, and with whitespace around it or not, is
\* parsed to the record inside the fence
ValidDocs == {"D_ok", "D_Int", "D_int_sp", "D_Integer"}
OpeningFences == Opens \ {<<>>}
Fenced(d) ==
    {a \o o \o b \o <<d>> \o FENCE \o e :
        a \in Pads, o \in OpeningFences, b \in Pads, e \in Pads}

C19_FenceStripping ==
    pc = "parsed" =>
        \A d \in ValidDocs : raw_response \in Fenced(d) => parsed = Return(Docs[d])

\* C20: the requests of a run are issued in strictly increasing order of
\* (catalogue position, backend position, attempt index), one at a time: a
\* request for another backend or entry starts only after the result of the
\* previous logical request has been returned and stored
LexLess(a, b) ==
    \/ a[1] < b[1]
    \/ a[1] = b[1] /\ a[2] < b[2]
    \/ a[1] = b[1] /\ a[2] = b[2] /\ a[3] < b[3]

C20_Ordered ==
    \A i \in 1..(Len(requests) - 1) : LexLess(requests[i], requests[i + 1])

C20_RequestStep ==
    (requests' # requests /\ run' = run) =>
        /\ pc = "attempt"
        /\ requests' = Append(requests, <<idx + 1, llm_idx, attempt>>)
        /\ (attempt = 0 /\ requests # <<>>) =>
               LLM_NAMES[Last(requests)[2]] \in
                   DOMAIN results[catalogue[Last(requests)[1]].signature].llm_responses

C20_Sequential == []C20_Ordered /\ [][C20_RequestStep]_vars

\* a finished run with requests for both entries and both backends, one of
\* them retried twice
C20_Witness ==
    /\ pc = "done"
    /\ {r[1] : r \in Range(requests)} = {1, 2}
    /\ \A p \in {1, 2} : {r[2] : r \in {q \in Range(requests) : q[1] = p}} = {1, 2}
    /\ \E r \in Range(requests) : r[3] = 2

\* C21: when the scorer fails on the parsed response of a backend (a
\* required field is absent or is not text), a score with every number 0,
\* type match false and success = false is stored under the backend's name,
\* the response is stored as it was returned, and the run goes on with the
\* next backend
TextField(r, path) ==
    IF Len(path) = 1
    THEN r.t = "obj" /\ path[1] \in DOMAIN r.f /\ r.f[path[1]].t = "str"
    ELSE /\ r.t = "obj"
         /\ path[1] \in DOMAIN r.f
         /\ r.f[path[1]].t = "obj"
         /\ path[2] \in DOMAIN r.f[path[1]].f
         /\ r.f[path[1]].f[path[2]].t = "str"

LacksTextField(r) ==
    \E path \in {<<"purpose_behavior">>, <<"return_values", "type">>,
                  <<"return_values", "description">>} : ~TextField(r, path)

IsZeroScore(sc) ==
    /\ sc.purpose_similarity = Zero
    /\ sc.return_desc_similarity = Zero
    /\ sc.overall_similarity = Zero
    /\ sc.return_type_match = FALSE
    /\ sc.success = FALSE

C21_StoreStep ==
    (/\ pc = "returned"
     /\ llm_result.success
     /\ LacksTextField(llm_result.parsed_response)
     /\ pc' # "exit") =>
        /\ CurrentLlm \in DOMAIN results'[CurrentSig].similarities
        /\ IsZeroScore(results'[CurrentSig].similarities[CurrentLlm])
        /\ results'[CurrentSig].llm_responses[CurrentLlm] = llm_result
        /\ pc' = "llm"
        /\ llm_idx' = llm_idx + 1
        /\ idx' = idx

C21_ScorerFailureLocal == [][C21_StoreStep]_vars

\* the score of the first backend failed and the second backend is asked
C21_Witness ==
    /\ pc = "attempt"
    /\ llm_idx = 2
    /\ CurrentSig \in DOMAIN results
    /\ "gpt4o" \in DOMAIN results[CurrentSig].similarities
    /\ IsZeroScore(results[CurrentSig].similarities["gpt4o"])
    /\ results[CurrentSig].llm_responses["gpt4o"].success
    /\ LacksTextField(results[CurrentSig].llm_responses["gpt4o"].parsed_response)

\* C22: once the resume file is loaded, no key leaves the ResultSet, an entry
\* is created only when its catalogue entry is reached for the first time
\* (and is never created anew), and the category and the ground truth of an
\* entry never change
C22_Step ==
    (pc \in Running \ {"main", "validated", "start"} /\ pc' # "exit") =>
        /\ DOMAIN results \subseteq DOMAIN results'
        /\ \A sig \in DOMAIN results :
              /\ results'[sig].category = results[sig].category
              /\ results'[sig].ground_truth = results[sig].ground_truth
              /\ DOMAIN results[sig].llm_responses
                    \subseteq DOMAIN results'[sig].llm_responses
        /\ DOMAIN results' # DOMAIN results =>
              /\ pc = "loop"
              /\ idx < Len(catalogue)
              /\ DOMAIN results' = DOMAIN results \cup {catalogue[idx + 1].signature}
              /\ \A q \in 1..idx : catalogue[q].signature # catalogue[idx + 1].signature
              /\ catalogue[idx + 1].signature \notin DOMAIN LoadedResults
              /\ results'[catalogue[idx + 1].signature] = NewEntry(catalogue[idx + 1])

C22_Monotone == [][C22_Step]_vars

\* a resumed run has added the entry of the second method to the loaded one
C22_Witness ==
    /\ pc = "done"
    /\ DOMAIN LoadedResults = {"m1"}
    /\ DOMAIN results = {"m1", "m2"}
    /\ results["m1"] = LoadedResults["m1"]
    /\ results["m2"].ground_truth = GroundTruth("m2")

\* C23: a text that decodes to a record lacking one of purpose_behavior,
\* return_values, return_values.type, return_values.description is parsed
\* to the ValidationError record that names the first missing field, never
\* to a success record
Decoded == json_loads(StripFence(raw_response))

HasField(r, k) == r.t = "obj" /\ k \in DOMAIN r.f

FirstMissing(r) ==
    IF ~HasField(r, "purpose_behavior") THEN "purpose_behavior"
    ELSE IF ~HasField(r, "return_values") THEN "return_values"
    ELSE IF ~HasField(r.f["return_values"], "type") THEN "type"
    ELSE IF ~HasField(r.f["return_values"], "description") THEN "description"
    ELSE "none"

MissingMessage ==
    [purpose_behavior |-> <<"Missing 'purpose_behavior' field">>,
     return_values |-> <<"Missing 'return_values' field">>,
     type |-> <<"Missing 'type' in return_values">>,
     description |-> <<"Missing 'description' in return_values">>]

C23_NamesMissingField ==
    (/\ pc = "parsed"
     /\ Decoded.ok
     /\ Decoded.v.t = "obj"
     /\ FirstMissing(Decoded.v) # "none") =>
        /\ ~IsSuccessRecord(parsed)
        /\ parsed = Return(ValidationErrorRecord(MissingMessage[FirstMissing(Decoded.v)]))

\* the part of C23 the code keeps: a record in which a field is missing
\* from a record (not from a text, a list, a number or null in the place
\* of return_values) gets the ValidationError that names the first one
C23_NamesMissingKey ==
    (/\ pc = "parsed"
     /\ Decoded.ok
     /\ Decoded.v.t = "obj"
     /\ FirstMissing(Decoded.v) # "none"
     /\ HasField(Decoded.v, "return_values") => Decoded.v.f["return_values"].t = "obj") =>
        parsed = Return(ValidationErrorRecord(MissingMessage[FirstMissing(Decoded.v)]))

\* C24: a text that cannot be decoded is parsed to a ParseError record whose
\* excerpt is a prefix, of at most EXCERPT_LEN characters, of the text given
\* to the decoder, however long that text is
Excerpt(r) == Tail(r.value.f["purpose_behavior"].s)

C24_ExcerptBound ==
    (pc = "parsed" /\ ~Decoded.ok) =>
        /\ IsParseError(parsed)
        /\ Head(parsed.value.f["purpose_behavior"].s) = "PARSE_ERROR: "
        /\ Len(Excerpt(parsed)) <= EXCERPT_LEN
        /\ Len(Excerpt(parsed)) <= Len(StripFence(raw_response))
        /\ Excerpt(parsed) = SubSeq(StripFence(raw_response), 1, Len(Excerpt(parsed)))

\* a fenced and padded text longer than the excerpt has been cut
C24_Witness ==
    /\ pc = "parsed"
    /\ StartsWith(Strip(raw_response), FENCE)
    /\ Len(StripFence(raw_response)) = EXCERPT_LEN + 1
    /\ IsParseError(parsed)
    /\ Len(Excerpt(parsed)) = EXCERPT_LEN

\* C25: whenever the client returns text, the request counts as successful
\* whatever the parser makes of the text: the attempt is not retried, the
\* stored response has success = true, and the parsed record, error-tagged
\* or not, is scored and the score stored under the backend
C25_NoRetry ==
    (pc = "attempt" /\ calls' = calls + 1 /\ ~client_out'.raised) =>
        /\ errors' = errors
        /\ pc' = "returned"
        /\ llm_result'.success
        /\ llm_result'.parsed_response = parse_llm_response(client_out'.text).value

C25_Scored ==
    (pc = "returned" /\ ~client_out.raised /\ pc' # "exit") =>
        /\ results'[CurrentSig].llm_responses[CurrentLlm].success
        /\ CurrentLlm \in DOMAIN results'[CurrentSig].similarities
        /\ results'[CurrentSig].similarities[CurrentLlm] =
               calculate_method_similarity(results[CurrentSig].ground_truth,
                                           llm_result.parsed_response)

C25_SuccessWhateverParse == [][C25_NoRetry /\ C25_Scored]_vars

\* the part of C25 the code keeps: a text the parser tags as ParseError or
\* ValidationError is not retried, and its record is scored
ErrorTagged(text) ==
    IsParseError(parse_llm_response(text)) \/ IsValidationError(parse_llm_response(text))

C25_ErrorTaggedStep ==
    /\ (/\ pc = "attempt"
        /\ calls' = calls + 1
        /\ ~client_out'.raised
        /\ ErrorTagged(client_out'.text)) =>
           errors' = errors /\ pc' = "returned" /\ llm_result'.success
    /\ (/\ pc = "returned"
        /\ ~client_out.raised
        /\ ErrorTagged(client_out.text)
        /\ pc' # "exit") =>
           /\ results'[CurrentSig].llm_responses[CurrentLlm].success
           /\ CurrentLlm \in DOMAIN results'[CurrentSig].similarities

C25_ErrorTaggedKept == [][C25_ErrorTaggedStep]_vars

\* C26: in every entry created in this run, the backends that have a score
\* are exactly the backends whose stored response has success = true
ScoredBackends(entry) == DOMAIN entry.similarities
SucceededBackends(entry) ==
    {l \in DOMAIN entry.llm_responses : entry.llm_responses[l].success}

C26_ScoresMatchResponses ==
    \A sig \in DOMAIN results \ DOMAIN LoadedResults :
        /\ ScoredBackends(results[sig]) = SucceededBackends(results[sig])
        /\ ScoredBackends(results[sig]) \subseteq Range(LLM_NAMES)

\* an entry of this run with a failed first and a successful second backend
C26_Witness ==
    /\ pc = "loop"
    /\ idx = 1
    /\ "m1" \notin DOMAIN LoadedResults
    /\ "m1" \in DOMAIN results
    /\ DOMAIN results["m1"].llm_responses = {"gpt4o", "deepseek"}
    /\ ~results["m1"].llm_responses["gpt4o"].success
    /\ ScoredBackends(results["m1"]) = {"deepseek"}

\* C27: a checkpoint write stores the ResultSet as it is at the end of a
\* loop body, and every entry in the file written has a response of every
\* configured backend: no partly attempted entry reaches the file
EntryComplete(entry) == DOMAIN entry.llm_responses = Range(LLM_NAMES)

C27_CheckpointStep ==
    (ckpts' # ckpts /\ run' = run) =>
        /\ pc = "save"
        /\ files'.progress = JsonFile(json_dump(results))
        /\ \A member \in files'.progress.doc : EntryComplete(member[2])
        /\ {member[1] : member \in files'.progress.doc} \ DOMAIN LoadedResults
              = {catalogue[p].signature : p \in processed}

C27_SnapshotsComplete == [][C27_CheckpointStep]_vars

\* right after a checkpoint that holds two entries of this run, one with a
\* failed response
C27_Witness ==
    /\ pc = "loop"
    /\ idx = 2
    /\ ckpts = <<2>>
    /\ LoadedResults = EmptyDict
    /\ files.progress.state = "json"
    /\ DOMAIN json_load(files.progress.doc) = {"m1", "m2"}
    /\ ~json_load(files.progress.doc)["m2"].llm_responses["deepseek"].success

\* C28: the checkpoints of a run are written exactly at the positions that
\* are multiples of PROGRESS_SAVE_INTERVAL and whose entry was processed,
\* not skipped; a skipped entry at such a position writes nothing, even
\* when entries before it were processed in this run
DuePositions ==
    {p \in processed : p % PROGRESS_SAVE_INTERVAL = 0 /\ p <= idx}

C28_Written ==
    pc \in Running \cup {"done"} =>
        /\ Range(ckpts) = DuePositions
        /\ Len(ckpts) = Cardinality(DuePositions)

C28_SkipStep ==
    (pc = "loop" /\ pc' = "loop" /\ idx' = idx + 1) =>
        /\ ckpts' = ckpts
        /\ files' = files
        /\ writes' = writes

C28_TriggerByPosition == []C28_Written /\ [][C28_SkipStep]_vars

\* the entry at position N was skipped after the first entry was processed,
\* no checkpoint was written there, and one was written at position 2N
C28_Witness ==
    /\ pc = "done"
    /\ run = 1
    /\ 1 \in processed
    /\ PROGRESS_SAVE_INTERVAL \notin processed
    /\ 2 * PROGRESS_SAVE_INTERVAL \in processed
    /\ ckpts = <<2 * PROGRESS_SAVE_INTERVAL>>

\* C29: when the resume file is missing or undecodable the run does not
\* stop at the load: it enters the loop with the empty ResultSet of a new
\* evaluator, skips no entry on account of earlier results, and a run
\* that reaches the end of the catalogue has sent a request to every
\* backend for every entry whose signature did not occur earlier in the
\* catalogue
LoadFailed ==
    resume_from # "none" /\ load_ground_truth(files[resume_from]).raised

Requested(p) ==
    \A l \in 1..Len(LLM_NAMES) : \E r \in Range(requests) : r[1] = p /\ r[2] = l

FirstOccurrence(p) ==
    \A q \in 1..(p - 1) : catalogue[q].signature # catalogue[p].signature

LoopCompleted == pc \in {"final", "done"}

C29_LoadStep ==
    (pc = "start" /\ LoadFailed /\ ~interrupted') =>
        /\ pc' = "loop"
        /\ results = EmptyDict
        /\ results' = results
        /\ exit_code' = exit_code

C29_SkipStep ==
    (LoadFailed /\ pc = "loop" /\ pc' = "loop" /\ idx' = idx + 1) =>
        \E q \in processed : catalogue[q].signature = catalogue[idx + 1].signature

C29_FirstRequested ==
    (LoadFailed /\ LoopCompleted) =>
        \A p \in 1..Len(catalogue) : FirstOccurrence(p) => Requested(p)

C29_LoadFailureNotFatal ==
    [][C29_LoadStep /\ C29_SkipStep]_vars /\ []C29_FirstRequested

\* C29 as stated: requests are issued for every catalogue entry
C29_EveryEntryRequested ==
    (LoadFailed /\ LoopCompleted) => \A p \in 1..Len(catalogue) : Requested(p)

\* the resume file is not JSON and the run has finished with both entries
\* of the catalogue evaluated
C29_Witness ==
    /\ pc = "done"
    /\ LoadFailed
    /\ files.resume = Garbage
    /\ processed = {1, 2}
    /\ Requested(1) /\ Requested(2)
    /\ DOMAIN results = {"m1", "m2"}

\* C30: when a due checkpoint is not written the run ends there: the
\* process exits with code 1, no further entry is processed, no request
\* is sent, full_results.json and the summary are not written, and the
\* entries processed since the last successful checkpoint are held by
\* self.results only, by no file
FileKeys(file) == IF file.state = "json" THEN DOMAIN json_load(file.doc) ELSE {}
LastCheckpoint == IF ckpts = <<>> THEN 0 ELSE Last(ckpts)
SinceLastCheckpoint == {p \in processed : p > LastCheckpoint}

C30_FailStep ==
    (pc = "save" /\ SaveDue(idx) /\ ckpts' = ckpts /\ ~interrupted') =>
        /\ pc' = "exit"
        /\ exit_code' = 1
        /\ processed' = processed
        /\ requests' = requests
        /\ writes' = writes
        /\ final_writes = 0 /\ final_writes' = 0
        /\ files'.final = files.final
        /\ files'.summary = files.summary
        /\ idx + 1 \in SinceLastCheckpoint
        /\ \A p \in SinceLastCheckpoint :
              /\ catalogue[p].signature \in DOMAIN results
              /\ catalogue[p].signature \notin FileKeys(files'.progress)
              /\ catalogue[p].signature \notin FileKeys(files'.final)
              /\ catalogue[p].signature \notin FileKeys(files'.resume)

C30_ExitStep == pc = "exit" => UNCHANGED vars

C30_WriteFailureAborts == [][C30_FailStep /\ C30_ExitStep]_vars

\* the first checkpoint was written, the second failed and left the file
\* as it was: the process has exited with code 1 without a final write
C30_Witness ==
    /\ pc = "exit"
    /\ exit_code = 1
    /\ ~interrupted
    /\ ckpts = <<PROGRESS_SAVE_INTERVAL>>
    /\ 2 * PROGRESS_SAVE_INTERVAL \in processed
    /\ final_writes = 0
    /\ files.final = Absent
    /\ FileKeys(files.progress) =
          {catalogue[p].signature : p \in 1..PROGRESS_SAVE_INTERVAL}

=============================================================================
